---- MODULE Spec2Model ----
(***************************************************************************)
(* Model of the Objective vector-store adapter                             *)
(* (libs/community/langchain_community/vectorstores/objective.py) and of   *)
(* the in-memory document indexer                                          *)
(* (libs/core/langchain_core/indexing/in_memory.py).                       *)
(*                                                                         *)
(* One call of the public interface is in progress at a time.  A batch     *)
(* call (upsert, delete, get_by_ids) submits one task per item to a        *)
(* ThreadPoolExecutor; a task is one run of the per-item closure, which    *)
(* calls _request; one step of a task is one iteration of the retry loop   *)
(* of _request (one HTTP attempt, and the backoff sleep when it failed     *)
(* with attempts remaining).  The calling thread takes the results in      *)
(* submission order, as executor.map yields them.                          *)
(***************************************************************************)
EXTENDS Integers, Sequences, FiniteSets, TLC

VARIABLES
    impl,      \* the object the caller holds: "Objective" or "InMemory"
    remote,    \* the remote service's objects: id -> object payload
    minted,    \* how many object ids the remote service has assigned
    store,     \* InMemoryDocumentIndexer.store: id -> Document
    issued,    \* how many uuid4 values have been drawn
    op,        \* the call in progress (or finished): its name
    prev,      \* history: what the call before returned, kept while the call
               \* in progress upserts the same identified documents again
    first_done, \* history: the task of the upsert in progress whose _upsert
               \* returned first (0 while none has)
    made,      \* history: per upsert task under way, the ids of the objects
               \* the service created on its failed attempts
    items,     \* the caller's Document objects passed to upsert
    ids,       \* the ids argument of delete / get_by_ids / get
    kwargs,    \* the option names passed to search
    wst,       \* per task: "queued", "running" or "done"
    attempt,   \* per task: loop variable `attempt` of _request
    slept,     \* per task: the time.sleep durations so far, in tenths of a second
    reqs,      \* the distinct HTTP requests the call has issued so far
    result,    \* per task: what the per-item closure returned and what it caught
    reply,     \* calling thread's _request, when over: exception its last
               \* iteration caught, JSON it returned
    collected, \* how many results the calling thread has taken from executor.map
    success,   \* upsert: list `success`; delete: boolean `success`
    failures,  \* upsert: list `failures`
    successes, \* get_by_ids: list `successes`
    outcome    \* how the call ended: returned value or raised exception

vars == <<impl, remote, minted, store, issued, op, prev, first_done, made,
          items, ids, kwargs, wst, attempt, slept, reqs, result, reply,
          collected, success, failures, successes, outcome>>

(***************************************************************************)
(* Bounds of the model and constants of the program.                       *)
(***************************************************************************)
MaxItems == 3          \* longest batch a call is given
MaxMinted == 2         \* object ids the remote service assigns before it refuses
MaxIssued == 2         \* uuid4 values drawn before upsert of id-less documents stops

\* os.getenv("OBJECTIVE_CONNECTION_POOL_SIZE", cpu_count * 12): the model runs
\* with the environment variable set to 2.
CONNECTION_POOL_SIZE == 2
MAX_RETRIES == 3
\* BACKOFF_FACTOR = 1.5 seconds, in tenths of a second
BACKOFF_FACTOR == 15

None == "None"
KnownIds == {"a", "b"}
MintedIds == <<"g1", "g2", "g3", "g4">>
Uuids == <<"u1", "u2", "u3", "u4">>

RECURSIVE Pow2(_)
Pow2(n) == IF n = 0 THEN 1 ELSE 2 * Pow2(n - 1)

EmptyMap == [k \in {} |-> None]
Remove(f, k) == [x \in DOMAIN f \ {k} |-> f[x]]
Put(f, k, v) == [x \in DOMAIN f \cup {k} |-> IF x = k THEN v ELSE f[x]]

(***************************************************************************)
(* The remote service, as the wire protocol describes it: objects under    *)
(* objects[/{id}], stored and returned verbatim inside the envelope        *)
(* {id, object}; indexes under indexes[/{id}/search|status].  `shape` says *)
(* whether the 2xx answer to a create, status or search request carries    *)
(* the field the adapter reads from it.                                    *)
(***************************************************************************)
Endpoint(coll, id, sub) == [coll |-> coll, id |-> id, sub |-> sub]

Envelope(rem, id) == ("id" :> id) @@ ("object" :> rem[id])

SearchResults(rem) ==
    LET hit(id) == IF id \in DOMAIN rem THEN <<Envelope(rem, id)>> ELSE <<>>
    IN  hit("a") \o hit("b")

Reply(status, json, text, rem, mt) ==
    [status |-> status, json |-> json, text |-> text, remote |-> rem, minted |-> mt]

Server(method, ep, data, shape, rem, mt) ==
    LET wf == shape = "wellformed" IN
    IF ep.coll = "objects" THEN
        CASE method = "GET" ->
                IF ep.id \in DOMAIN rem
                THEN Reply(200, Envelope(rem, ep.id), None, rem, mt)
                ELSE Reply(404, EmptyMap, "not found", rem, mt)
          [] method = "DELETE" ->
                IF ep.id \in DOMAIN rem
                THEN Reply(200, EmptyMap, None, Remove(rem, ep.id), mt)
                ELSE Reply(404, EmptyMap, "not found", rem, mt)
          [] method = "PUT" ->
                Reply(200, "id" :> ep.id, None, Put(rem, ep.id, data), mt)
          [] OTHER ->
                IF mt < MaxMinted
                THEN Reply(200, IF wf THEN "id" :> MintedIds[mt + 1] ELSE EmptyMap,
                           None, Put(rem, MintedIds[mt + 1], data), mt + 1)
                ELSE Reply(507, EmptyMap, "quota exceeded", rem, mt)
    ELSE
        CASE method = "POST" ->
                Reply(200, IF wf THEN "id" :> "idx1" ELSE EmptyMap, None, rem, mt)
          [] ep.sub = "status" ->
                Reply(200, IF wf THEN "status" :> "ready" ELSE EmptyMap, None, rem, mt)
          [] OTHER ->
                Reply(200, IF wf THEN "results" :> SearchResults(rem) ELSE EmptyMap,
                      None, rem, mt)

(***************************************************************************)
(* What one HTTP attempt can end in.                                       *)
(***************************************************************************)
\* What becomes of one HTTP exchange.  "connerr": the request never reached
\* the service.  "timeout": the service handled the request, and its answer
\* did not arrive.
NetOutcomes == {"ok", "malformed", "http5xx", "connerr", "timeout"}

\* An exception: its type, and the text of the response it carries (None when
\* it carries no response).
Exc(type, text) == [type |-> type, text |-> text]
NoExc == Exc("none", None)

\* http_session.request(...); response.raise_for_status(); response.json()
HttpSend(method, ep, data, net, rem, mt) ==
    CASE net \in {"ok", "malformed"} ->
            LET r == Server(method, ep, data,
                            IF net = "ok" THEN "wellformed" ELSE "malformed", rem, mt)
            IN  IF r.status = 200
                THEN [e |-> NoExc, json |-> r.json, remote |-> r.remote, minted |-> r.minted]
                ELSE [e |-> Exc("HTTPError", r.text), json |-> EmptyMap,
                      remote |-> r.remote, minted |-> r.minted]
      [] net = "http5xx" ->
            [e |-> Exc("HTTPError", "server error"), json |-> EmptyMap,
             remote |-> rem, minted |-> mt]
      [] net = "connerr" ->
            [e |-> Exc("ConnectionError", None), json |-> EmptyMap,
             remote |-> rem, minted |-> mt]
      [] OTHER ->
            LET r == Server(method, ep, data, "wellformed", rem, mt)
            IN  [e |-> Exc("Timeout", None), json |-> EmptyMap,
                 remote |-> r.remote, minted |-> r.minted]

\* faulty variant: the delay is not doubled
SleepTimeFlat(att) == BACKOFF_FACTOR

\* sleep_time = BACKOFF_FACTOR * (2**attempt)
SleepTime(att) == BACKOFF_FACTOR * Pow2(att)

\* if attempt < MAX_RETRIES - 1
AttemptsRemain(att) == att < MAX_RETRIES - 1

\* faulty variant: wraps the failure even when it carries no response
ExhaustedAlwaysWraps(e) == Exc("ObjectiveError", e.text)

\* if e.response is not None: raise ObjectiveError(e.response.text) from e
\* raise e
Exhausted(e) ==
    IF e.text # None THEN Exc("ObjectiveError", e.text) ELSE e

(***************************************************************************)
(* One iteration of the retry loop of _request, at loop variable `att`:    *)
(* ctl says whether the loop returns the JSON, continues after a sleep, or *)
(* raises.                                                                 *)
(***************************************************************************)
RequestIter(att, method, ep, data, net, rem, mt) ==
    LET h == HttpSend(method, ep, data, net, rem, mt) IN
    IF h.e = NoExc
    THEN [ctl |-> "return", json |-> h.json, err |-> NoExc, sleep |-> <<>>,
          e |-> h.e, remote |-> h.remote, minted |-> h.minted]
    ELSE IF AttemptsRemain(att)
    THEN [ctl |-> "continue", json |-> EmptyMap, err |-> NoExc,
          sleep |-> <<SleepTime(att)>>, e |-> h.e, remote |-> h.remote,
          minted |-> h.minted]
    ELSE [ctl |-> "raise", json |-> EmptyMap, err |-> Exhausted(h.e), sleep |-> <<>>,
          e |-> h.e, remote |-> h.remote, minted |-> h.minted]

(***************************************************************************)
(* State at construction, and the start of a call.                         *)
(***************************************************************************)
Document(id, page_content, metadata) ==
    [id |-> id, page_content |-> page_content, metadata |-> metadata]

\* Documents come without an id or with the id "a"; id lists name "a" and "b".
Docs == {Document(id, "t", "m") : id \in {None, "a"}}
SeqsUpTo(S, n) == UNION {[1..k -> S] : k \in 0..n}
DocBatches == SeqsUpTo(Docs, MaxItems)
IdBatches == SeqsUpTo(KnownIds, MaxItems)

\* The in-memory indexer is given documents without an id or with the id "a",
\* the latter of two contents, so that a later document can replace an earlier
\* one; its id lists name "a" and the first generated id.
MemDocs == Docs \cup {Document("a", "s", "m")}
MemDocBatches == SeqsUpTo(MemDocs, MaxItems)
MemIdBatches == SeqsUpTo({"a", Uuids[1]}, MaxItems)

\* An Optional[List[str]] argument: the list, or None (given = FALSE).
IdList(l) == [given |-> TRUE, list |-> l]
NoIds == [given |-> FALSE, list |-> <<>>]
IdArgs == {NoIds} \cup {IdList(l) : l \in IdBatches}
MemIdArgs == {NoIds} \cup {IdList(l) : l \in MemIdBatches}

\* An object another client of the service stored, in the envelope's shape.
ForeignPayload == ("text" :> "t0") @@ ("metadata" :> "m0")

Running == [kind |-> "running", value |-> None]
Returned(v) == [kind |-> "returned", value |-> v]
Raised(e) == [kind |-> "raised", value |-> e]

\* History of repeated upserts: nothing to remember unless the call that
\* starts is an upsert of the identified documents the call before it, an
\* upsert that returned, was given.
NoRepeat == [repeats |-> FALSE, value |-> None]
Repeats(name, docs) ==
    /\ name \in {"upsert", "mem_upsert"}
    /\ op = name
    /\ outcome.kind = "returned"
    /\ docs # <<>>
    /\ docs = items
    /\ \A k \in DOMAIN docs : docs[k].id # None

Init ==
    /\ impl \in {"Objective", "InMemory"}
    /\ remote = ("a" :> ForeignPayload)
    /\ minted = 0
    /\ store = EmptyMap
    /\ issued = 0
    /\ op = "none"
    /\ prev = NoRepeat
    /\ first_done = 0
    /\ made = <<>>
    /\ items = <<>>
    /\ ids = IdList(<<>>)
    /\ kwargs = {}
    /\ wst = <<>>
    /\ attempt = <<>>
    /\ slept = <<>>
    /\ reqs = {}
    /\ result = <<>>
    /\ reply = [e |-> NoExc, json |-> EmptyMap]
    /\ collected = 0
    /\ success = <<>>
    /\ failures = <<>>
    /\ successes = <<>>
    /\ outcome = [kind |-> "none", value |-> None]

Idle == outcome.kind # "running"

\* A call starts with n tasks in state w0 and nothing collected.
Begin(name, docs, idlist, kw, n, w0, out) ==
    /\ Idle
    /\ op' = name
    /\ prev' = IF Repeats(name, docs)
               THEN [repeats |-> TRUE, value |-> outcome.value] ELSE NoRepeat
    /\ first_done' = 0
    /\ made' = [i \in 1..n |-> {}]
    /\ items' = docs
    /\ ids' = idlist
    /\ kwargs' = kw
    /\ wst' = [i \in 1..n |-> w0]
    /\ attempt' = [i \in 1..n |-> 0]
    /\ slept' = [i \in 1..n |-> <<>>]
    /\ reqs' = {}
    /\ result' = [i \in 1..n |-> None]
    /\ reply' = [e |-> NoExc, json |-> EmptyMap]
    /\ collected' = 0
    /\ success' = IF name = "delete" THEN TRUE ELSE <<>>
    /\ failures' = <<>>
    /\ successes' = <<>>
    /\ outcome' = out

(***************************************************************************)
(* The worker pool of a batch call: ThreadPoolExecutor(max_workers =        *)
(* CONNECTION_POOL_SIZE), tasks taken from its queue in submission order.  *)
(***************************************************************************)
Tasks == DOMAIN wst
InFlight == Cardinality({i \in Tasks : wst[i] = "running"})

\* HTTPAdapter(pool_maxsize=CONNECTION_POOL_SIZE)
pool_maxsize == CONNECTION_POOL_SIZE

\* faulty variant: a thread per task, whatever max_workers
WorkerFreeUnbounded == TRUE

\* a worker thread exists or can be spawned: max_workers bounds them
WorkerFree == InFlight < CONNECTION_POOL_SIZE

BatchOps == {"upsert", "delete", "get_by_ids"}

\* A worker thread takes the next queued task.
Start(i) ==
    /\ outcome.kind = "running"
    /\ op \in BatchOps
    /\ i \in Tasks
    /\ wst[i] = "queued"
    /\ \A j \in 1..(i - 1) : wst[j] # "queued"
    /\ WorkerFree
    /\ wst' = [wst EXCEPT ![i] = "running"]
    /\ UNCHANGED <<impl, remote, minted, store, issued, op, prev, first_done,
                   made, items, ids, kwargs, attempt, slept, reqs, result,
                   reply, collected, success, failures, successes, outcome>>

\* The effect of one iteration r of _request's loop on task i; `res` is what the
\* per-item closure returns when the iteration ends the request.  A pool task's
\* frame ends with the task, and its loop variable and sleep log with it; the
\* calling thread's are kept until the next call.
Advance(i, r, method, ep, res) ==
    LET more == r.ctl = "continue"
        drop == ~more /\ op \in BatchOps
    IN  /\ reqs' = reqs \cup {[method |-> method, endpoint |-> ep]}
        /\ slept' = [slept EXCEPT ![i] = IF drop THEN <<>> ELSE @ \o r.sleep]
        /\ attempt' = [attempt EXCEPT ![i] = IF drop THEN 0
                                             ELSE IF more THEN @ + 1 ELSE @]
        /\ wst' = [wst EXCEPT ![i] = IF more THEN @ ELSE "done"]
        /\ result' = [result EXCEPT ![i] = IF more THEN @ ELSE res]
        /\ reply' = IF more \/ op \in BatchOps THEN reply
                    ELSE [e |-> r.e, json |-> r.json]
        /\ remote' = r.remote
        /\ minted' = r.minted

(***************************************************************************)
(* Objective.upsert                                                        *)
(***************************************************************************)
\* obj_data of _upsert
ObjData(document) ==
    ("text:" :> document.page_content) @@ ("metadata" :> document.metadata)

\* `if document.id:`
Truthy(id) == id # None /\ id # ""

\* faulty variant: every document is created anew
UpsertMethodPost(document) == "POST"

UpsertMethod(document) == IF Truthy(document.id) THEN "PUT" ELSE "POST"
UpsertEndpoint(document) ==
    IF Truthy(document.id) THEN Endpoint("objects", document.id, "")
                           ELSE Endpoint("objects", None, "")

\* What a per-item closure hands back: its return value, and which exception
\* its `except Exception` caught and logged: "none", "_request" (raised by
\* _request) or "KeyError" (raised on the JSON _request returned).
Closed(ret, caught) == [ret |-> ret, caught |-> caught]
CaughtIn(r) == IF r.ctl = "raise" THEN "_request" ELSE "KeyError"

\* faulty variant: the id the service answered a POST with is not assigned to
\* the document
UpsertClosureNoWriteBack(document, r) ==
    IF r.ctl = "return" /\ Truthy(document.id)
    THEN [doc |-> document,
          res |-> Closed([key |-> document.id, ok |-> TRUE], "none")]
    ELSE IF r.ctl = "return" /\ "id" \in DOMAIN r.json
    THEN [doc |-> document,
          res |-> Closed([key |-> r.json["id"], ok |-> TRUE], "none")]
    ELSE [doc |-> document,
          res |-> Closed([key |-> document.id, ok |-> FALSE], CaughtIn(r))]

\* What _upsert does once _request has returned or raised: the document as it
\* leaves it, and the pair it returns.
UpsertClosure(document, r) ==
    IF r.ctl = "return" /\ Truthy(document.id)
    THEN [doc |-> document,
          res |-> Closed([key |-> document.id, ok |-> TRUE], "none")]
    ELSE IF r.ctl = "return" /\ "id" \in DOMAIN r.json
    THEN [doc |-> [document EXCEPT !.id = r.json["id"]],
          res |-> Closed([key |-> r.json["id"], ok |-> TRUE], "none")]
    ELSE [doc |-> document,
          res |-> Closed([key |-> document.id, ok |-> FALSE], CaughtIn(r))]

CallUpsert(docs) ==
    /\ impl = "Objective"
    /\ Begin("upsert", docs, IdList(<<>>), {}, Len(docs), "queued", Running)
    /\ UNCHANGED <<impl, remote, minted, store, issued>>

UpsertStep(i, net) ==
    /\ outcome.kind = "running"
    /\ op = "upsert"
    /\ i \in Tasks
    /\ wst[i] = "running"
    /\ LET document == items[i]
           r == RequestIter(attempt[i], UpsertMethod(document),
                            UpsertEndpoint(document), ObjData(document),
                            net, remote, minted)
           c == UpsertClosure(document, r)
       IN  /\ Advance(i, r, UpsertMethod(document), UpsertEndpoint(document),
                      c.res)
           /\ items' = IF r.ctl = "continue" THEN items
                       ELSE [items EXCEPT ![i] = c.doc]
           /\ first_done' = IF r.ctl # "continue" /\ first_done = 0
                            THEN i ELSE first_done
           /\ made' = [made EXCEPT
                         ![i] = IF r.ctl = "continue"
                                THEN @ \cup (DOMAIN r.remote \ DOMAIN remote)
                                ELSE {}]
    /\ UNCHANGED <<impl, store, issued, op, prev, ids, kwargs, collected,
                   success, failures, successes, outcome>>

\* executor.map yields the results in submission order, each when it is ready.
ResultReady(i) == wst[i] = "done"

\* faulty variant: each result is put at the front of its list
UpsertCollectPrepends ==
    /\ outcome.kind = "running"
    /\ op = "upsert"
    /\ collected < Len(wst)
    /\ ResultReady(collected + 1)
    /\ LET res == result[collected + 1].ret IN
       /\ success' = IF res.ok THEN <<res.key>> \o success ELSE success
       /\ failures' = IF res.ok THEN failures ELSE <<res.key>> \o failures
    /\ collected' = collected + 1
    /\ UNCHANGED <<impl, remote, minted, store, issued, op, prev, first_done,
                   made, items, ids, kwargs, wst, attempt, slept, reqs, result,
                   reply, successes, outcome>>

\* one iteration of `for result in executor.map(_upsert, items)`
UpsertCollect ==
    /\ outcome.kind = "running"
    /\ op = "upsert"
    /\ collected < Len(wst)
    /\ ResultReady(collected + 1)
    /\ LET res == result[collected + 1].ret IN
       /\ success' = IF res.ok THEN Append(success, res.key) ELSE success
       /\ failures' = IF res.ok THEN failures ELSE Append(failures, res.key)
    /\ collected' = collected + 1
    /\ UNCHANGED <<impl, remote, minted, store, issued, op, prev, first_done,
                   made, items, ids, kwargs, wst, attempt, slept, reqs, result,
                   reply, successes, outcome>>

\* faulty variant: the return sits inside the loop over executor.map
MapExhaustedEarly == collected >= 1 \/ Len(wst) = 0

\* the loop over executor.map is exhausted, and the `with` block's exit
\* (shutdown(wait=True)) has joined the workers
MapExhausted == collected = Len(wst) /\ \A i \in Tasks : wst[i] = "done"

UpsertResponse(succeeded, failed) == [succeeded |-> succeeded, failed |-> failed]

UpsertReturn ==
    /\ outcome.kind = "running"
    /\ op = "upsert"
    /\ MapExhausted
    /\ outcome' = Returned(UpsertResponse(success, failures))
    /\ UNCHANGED <<impl, remote, minted, store, issued, op, prev, first_done,
                   made, items, ids, kwargs, wst, attempt, slept, reqs, result,
                   reply, collected, success, failures, successes>>

(***************************************************************************)
(* Objective.delete                                                        *)
(***************************************************************************)
\* What _delete returns once _request has returned or raised.
\* faulty variant: the except branch returns True
DeleteClosureSwallows(r) ==
    Closed(TRUE, IF r.ctl = "return" THEN "none" ELSE "_request")

DeleteClosure(r) ==
    IF r.ctl = "return" THEN Closed(TRUE, "none") ELSE Closed(FALSE, "_request")

\* executor.map(_delete, None) raises TypeError from zip(None) before any task
\* is submitted; the `with` block's exit then joins no worker.
CallDelete(idlist) ==
    /\ impl = "Objective"
    /\ IF ~idlist.given
       THEN Begin("delete", <<>>, idlist, {}, 0, "queued",
                  Raised(Exc("TypeError", "'NoneType' object is not iterable")))
       ELSE Begin("delete", <<>>, idlist, {}, Len(idlist.list), "queued", Running)
    /\ UNCHANGED <<impl, remote, minted, store, issued>>

DeleteStep(i, net) ==
    /\ outcome.kind = "running"
    /\ op = "delete"
    /\ i \in Tasks
    /\ wst[i] = "running"
    /\ LET ep == Endpoint("objects", ids.list[i], "")
           r == RequestIter(attempt[i], "DELETE", ep, None, net, remote, minted)
       IN  Advance(i, r, "DELETE", ep, DeleteClosure(r))
    /\ UNCHANGED <<impl, store, issued, op, prev, first_done, made, items, ids,
                   kwargs, collected, success, failures, successes, outcome>>

\* faulty variant: success is overwritten by each result
DeleteCollectLast ==
    /\ outcome.kind = "running"
    /\ op = "delete"
    /\ collected < Len(wst)
    /\ ResultReady(collected + 1)
    /\ success' = result[collected + 1].ret
    /\ collected' = collected + 1
    /\ UNCHANGED <<impl, remote, minted, store, issued, op, prev, first_done,
                   made, items, ids, kwargs, wst, attempt, slept, reqs, result,
                   reply, failures, successes, outcome>>

\* one iteration of `for result in executor.map(_delete, ids)`
DeleteCollect ==
    /\ outcome.kind = "running"
    /\ op = "delete"
    /\ collected < Len(wst)
    /\ ResultReady(collected + 1)
    /\ success' = (success /\ result[collected + 1].ret)
    /\ collected' = collected + 1
    /\ UNCHANGED <<impl, remote, minted, store, issued, op, prev, first_done,
                   made, items, ids, kwargs, wst, attempt, slept, reqs, result,
                   reply, failures, successes, outcome>>

DeleteReturn ==
    /\ outcome.kind = "running"
    /\ op = "delete"
    /\ MapExhausted
    /\ outcome' = Returned(success)
    /\ UNCHANGED <<impl, remote, minted, store, issued, op, prev, first_done,
                   made, items, ids, kwargs, wst, attempt, slept, reqs, result,
                   reply, collected, success, failures, successes>>

(***************************************************************************)
(* Objective._doc_from_response and Objective.get_by_ids                   *)
(***************************************************************************)
\* The keys _doc_from_response subscripts or pops: a KeyError without them.
Decodable(obj_response) ==
    /\ "id" \in DOMAIN obj_response
    /\ "object" \in DOMAIN obj_response
    /\ "text" \in DOMAIN obj_response["object"]

\* metadata = obj_data.get("metadata", {})
_doc_from_response(obj_response) ==
    LET obj_data == obj_response["object"] IN
    Document(obj_response["id"], obj_data["text"],
             IF "metadata" \in DOMAIN obj_data THEN obj_data["metadata"]
                                               ELSE EmptyMap)

\* What _get_by_id returns once _request has returned or raised: a one-element
\* list for a Document, the empty list for None.
GetClosure(r) ==
    IF r.ctl = "return" /\ Decodable(r.json)
    THEN Closed(<<_doc_from_response(r.json)>>, "none")
    ELSE Closed(<<>>, CaughtIn(r))

CallGetByIds(idlist) ==
    /\ impl = "Objective"
    /\ Begin("get_by_ids", <<>>, IdList(idlist), {}, Len(idlist), "queued", Running)
    /\ UNCHANGED <<impl, remote, minted, store, issued>>

GetStep(i, net) ==
    /\ outcome.kind = "running"
    /\ op = "get_by_ids"
    /\ i \in Tasks
    /\ wst[i] = "running"
    /\ LET ep == Endpoint("objects", ids.list[i], "")
           r == RequestIter(attempt[i], "GET", ep, None, net, remote, minted)
       IN  Advance(i, r, "GET", ep, GetClosure(r))
    /\ UNCHANGED <<impl, store, issued, op, prev, first_done, made, items, ids,
                   kwargs, collected, success, failures, successes, outcome>>

\* one iteration of `for result in executor.map(_get_by_id, ids)`: `if result:`
GetCollect ==
    /\ outcome.kind = "running"
    /\ op = "get_by_ids"
    /\ collected < Len(wst)
    /\ ResultReady(collected + 1)
    /\ successes' = successes \o result[collected + 1].ret
    /\ collected' = collected + 1
    /\ UNCHANGED <<impl, remote, minted, store, issued, op, prev, first_done,
                   made, items, ids, kwargs, wst, attempt, slept, reqs, result,
                   reply, success, failures, outcome>>

GetReturn ==
    /\ outcome.kind = "running"
    /\ op = "get_by_ids"
    /\ MapExhausted
    /\ outcome' = Returned(successes)
    /\ UNCHANGED <<impl, remote, minted, store, issued, op, prev, first_done,
                   made, items, ids, kwargs, wst, attempt, slept, reqs, result,
                   reply, collected, success, failures, successes>>

(***************************************************************************)
(* Objective.search, Objective.create_index, Objective.index_status: one   *)
(* _request on the calling thread (task 1).                                *)
(***************************************************************************)
SearchOptions == SUBSET {"index_id", "filter_query"}

\* faulty variant: the check is skipped when filter_query is given
NoIndexIdUnlessFiltered(kw) == "index_id" \notin kw /\ "filter_query" \notin kw

\* if "index_id" not in kwargs
NoIndexId(kw) == "index_id" \notin kw

CallSearch(kw) ==
    /\ impl = "Objective"
    /\ IF NoIndexId(kw)
       THEN Begin("search", <<>>, IdList(<<>>), kw, 0, "running",
                  Raised(Exc("ObjectiveError", "index_id is required for search")))
       ELSE Begin("search", <<>>, IdList(<<>>), kw, 1, "running", Running)
    /\ UNCHANGED <<impl, remote, minted, store, issued>>

\* [self._doc_from_response(obj) for obj in response["results"]]
RECURSIVE DecodeAll(_)
DecodeAll(objs) ==
    IF objs = <<>> THEN <<>>
    ELSE <<_doc_from_response(Head(objs))>> \o DecodeAll(Tail(objs))

SearchOutcome(r) ==
    IF r.ctl = "raise" THEN Raised(r.err)
    ELSE IF "results" \notin DOMAIN r.json THEN Raised(Exc("KeyError", "results"))
    ELSE IF \E k \in DOMAIN r.json["results"] : ~Decodable(r.json["results"][k])
    THEN Raised(Exc("KeyError", "text"))
    ELSE Returned(DecodeAll(r.json["results"]))

SearchStep(net) ==
    /\ outcome.kind = "running"
    /\ op = "search"
    /\ LET ep == Endpoint("indexes", "idx1", "search")
           r == RequestIter(attempt[1], "GET", ep, None, net, remote, minted)
       IN  /\ Advance(1, r, "GET", ep, None)
           /\ outcome' = IF r.ctl = "continue" THEN outcome ELSE SearchOutcome(r)
    /\ UNCHANGED <<impl, store, issued, op, prev, first_done, made, items, ids,
                   kwargs, collected, success, failures, successes>>

CallCreateIndex ==
    /\ impl = "Objective"
    /\ Begin("create_index", <<>>, IdList(<<>>), {}, 1, "running", Running)
    /\ UNCHANGED <<impl, remote, minted, store, issued>>

\* faulty variant: response.get("id") returned without the check
CreateIndexOutcomeUnchecked(r) ==
    IF r.ctl = "raise" THEN Raised(r.err)
    ELSE Returned(IF "id" \in DOMAIN r.json THEN r.json["id"] ELSE None)

CreateIndexOutcome(r) ==
    IF r.ctl = "raise" THEN Raised(r.err)
    ELSE IF "id" \notin DOMAIN r.json
    THEN Raised(Exc("ObjectiveError", "Failed to create index"))
    ELSE Returned(r.json["id"])

CreateIndexStep(net) ==
    /\ outcome.kind = "running"
    /\ op = "create_index"
    /\ LET ep == Endpoint("indexes", None, "")
           r == RequestIter(attempt[1], "POST", ep, None, net, remote, minted)
       IN  /\ Advance(1, r, "POST", ep, None)
           /\ outcome' = IF r.ctl = "continue" THEN outcome
                         ELSE CreateIndexOutcome(r)
    /\ UNCHANGED <<impl, store, issued, op, prev, first_done, made, items, ids,
                   kwargs, collected, success, failures, successes>>

CallIndexStatus ==
    /\ impl = "Objective"
    /\ Begin("index_status", <<>>, IdList(<<>>), {}, 1, "running", Running)
    /\ UNCHANGED <<impl, remote, minted, store, issued>>

IndexStatusOutcome(r) ==
    IF r.ctl = "raise" THEN Raised(r.err)
    ELSE IF "status" \notin DOMAIN r.json
    THEN Raised(Exc("ObjectiveError", "Failed to retrieve index"))
    ELSE Returned(r.json["status"])

IndexStatusStep(net) ==
    /\ outcome.kind = "running"
    /\ op = "index_status"
    /\ LET ep == Endpoint("indexes", "idx1", "status")
           r == RequestIter(attempt[1], "GET", ep, None, net, remote, minted)
       IN  /\ Advance(1, r, "GET", ep, None)
           /\ outcome' = IF r.ctl = "continue" THEN outcome
                         ELSE IndexStatusOutcome(r)
    /\ UNCHANGED <<impl, store, issued, op, prev, first_done, made, items, ids,
                   kwargs, collected, success, failures, successes>>

(***************************************************************************)
(* InMemoryDocumentIndexer: each call runs to its end on the calling       *)
(* thread.  uuid.uuid4() draws the next value never drawn before.          *)
(***************************************************************************)
\* faulty variant: the generated id is not set on the copy
CopyWithoutId(item, id_) == item

\* item.copy() with the generated id set on it
CopyWithId(item, id_) == [item EXCEPT !.id = id_]

\* the loop of upsert over items[k..], from store st with n uuids drawn
RECURSIVE MemUpsertLoop(_, _, _, _)
MemUpsertLoop(docs, st, n, ok_ids) ==
    IF docs = <<>> THEN [store |-> st, issued |-> n, ok_ids |-> ok_ids]
    ELSE LET item == Head(docs) IN
         IF item.id = None
         THEN LET id_ == Uuids[n + 1]
                  item_ == CopyWithId(item, id_)
              IN  MemUpsertLoop(Tail(docs), Put(st, id_, item_), n + 1,
                                Append(ok_ids, item_.id))
         ELSE MemUpsertLoop(Tail(docs), Put(st, item.id, item), n,
                            Append(ok_ids, item.id))

NoIdCount(docs) == Cardinality({k \in DOMAIN docs : docs[k].id = None})

MemUpsert(docs) ==
    /\ impl = "InMemory"
    /\ issued + NoIdCount(docs) <= MaxIssued
    /\ LET u == MemUpsertLoop(docs, store, issued, <<>>) IN
       /\ Begin("mem_upsert", docs, IdList(<<>>), {}, 0, "done",
                Returned(UpsertResponse(u.ok_ids, <<>>)))
       /\ store' = u.store
       /\ issued' = u.issued
    /\ UNCHANGED <<impl, remote, minted>>

\* the loop of delete over ids
RECURSIVE MemDeleteLoop(_, _, _)
MemDeleteLoop(idlist, st, ok_ids) ==
    IF idlist = <<>> THEN [store |-> st, ok_ids |-> ok_ids]
    ELSE LET id_ == Head(idlist) IN
         IF id_ \in DOMAIN st
         THEN MemDeleteLoop(Tail(idlist), Remove(st, id_), Append(ok_ids, id_))
         ELSE MemDeleteLoop(Tail(idlist), st, ok_ids)

\* faulty variant: num_deleted is left at zero
DeleteResponseUncounted(ok_ids) ==
    [succeeded |-> ok_ids, num_deleted |-> 0, num_failed |-> 0,
     failed |-> <<>>]

DeleteResponse(ok_ids) ==
    [succeeded |-> ok_ids, num_deleted |-> Len(ok_ids), num_failed |-> 0,
     failed |-> <<>>]

MemDelete(idlist) ==
    /\ impl = "InMemory"
    /\ IF ~idlist.given
       THEN /\ Begin("mem_delete", <<>>, idlist, {}, 0, "done",
                     Raised(Exc("ValueError", "IDs must be provided for deletion")))
            /\ store' = store
       ELSE LET d == MemDeleteLoop(idlist.list, store, <<>>) IN
            /\ Begin("mem_delete", <<>>, idlist, {}, 0, "done",
                     Returned(DeleteResponse(d.ok_ids)))
            /\ store' = d.store
    /\ UNCHANGED <<impl, remote, minted, issued>>

\* the loop of get over ids
RECURSIVE MemGetLoop(_, _)
MemGetLoop(idlist, st) ==
    IF idlist = <<>> THEN <<>>
    ELSE (IF Head(idlist) \in DOMAIN st THEN <<st[Head(idlist)]>> ELSE <<>>)
         \o MemGetLoop(Tail(idlist), st)

\* faulty variant: get removes the documents it returns
MemGetPops(idlist) ==
    /\ impl = "InMemory"
    /\ Begin("mem_get", <<>>, IdList(idlist), {}, 0, "done",
             Returned(MemGetLoop(idlist, store)))
    /\ store' = MemDeleteLoop(idlist, store, <<>>).store
    /\ UNCHANGED <<impl, remote, minted, issued>>

MemGet(idlist) ==
    /\ impl = "InMemory"
    /\ Begin("mem_get", <<>>, IdList(idlist), {}, 0, "done",
             Returned(MemGetLoop(idlist, store)))
    /\ UNCHANGED <<impl, remote, minted, store, issued>>

Next ==
    \/ \E docs \in DocBatches : CallUpsert(docs)
    \/ \E i \in 1..MaxItems : Start(i)
    \/ \E i \in 1..MaxItems, net \in NetOutcomes : UpsertStep(i, net)
    \/ UpsertCollect
    \/ UpsertReturn
    \/ \E idlist \in IdArgs : CallDelete(idlist)
    \/ \E i \in 1..MaxItems, net \in NetOutcomes : DeleteStep(i, net)
    \/ DeleteCollect
    \/ DeleteReturn
    \/ \E idlist \in IdBatches : CallGetByIds(idlist)
    \/ \E i \in 1..MaxItems, net \in NetOutcomes : GetStep(i, net)
    \/ GetCollect
    \/ GetReturn
    \/ \E kw \in SearchOptions : CallSearch(kw)
    \/ \E net \in NetOutcomes : SearchStep(net)
    \/ CallCreateIndex
    \/ \E net \in NetOutcomes : CreateIndexStep(net)
    \/ CallIndexStatus
    \/ \E net \in NetOutcomes : IndexStatusStep(net)
    \/ \E docs \in MemDocBatches : MemUpsert(docs)
    \/ \E idlist \in MemIdArgs : MemDelete(idlist)
    \/ \E idlist \in MemIdBatches : MemGet(idlist)

Spec == Init /\ [][Next]_vars

(***************************************************************************)
(* Properties.                                                             *)
(***************************************************************************)
SingleOps == {"search", "create_index", "index_status"}
Over == outcome.kind \in {"returned", "raised"}

\* how many entries of sequence q equal v
Count(q, v) == Cardinality({k \in DOMAIN q : q[k] = v})

\* C1: when Objective.upsert returns, succeeded and failed together hold one
\* entry per input document, the entries are the documents' ids (the id given,
\* or the id generated for a document given without one), and no entry is None.
\* Stated for the calls in which every answer of the service had the shape the
\* wire protocol gives it, so that a failure is a failed request.
C1_UpsertCoversIds ==
    (/\ op = "upsert"
     /\ outcome.kind = "returned"
     /\ \A i \in Tasks : result[i].caught # "KeyError") =>
        LET all == outcome.value.succeeded \o outcome.value.failed
            docids == [k \in DOMAIN items |-> items[k].id]
        IN  /\ Len(all) = Len(items)
            /\ \A v \in {None} \cup KnownIds \cup {MintedIds[k] : k \in DOMAIN MintedIds} :
                   Count(all, v) = Count(docids, v)
            /\ \A k \in DOMAIN all : all[k] # None

\* C2: the retry loop of _request never goes past its third attempt, and the
\* sleeps made so far are one per failed attempt that had attempts remaining,
\* 1.5 s then 3 s; no sleep follows the attempt that ends the request.
C2_RetryBackoff ==
    /\ \A i \in Tasks :
          /\ attempt[i] \in 0..2
          /\ slept[i] = SubSeq(<<15, 30>>, 1, attempt[i])
    /\ (op = "index_status" /\ outcome.kind = "returned") =>
          /\ reply.e = NoExc
          /\ outcome.value = reply.json["status"]

\* a request that failed twice and succeeded on the third attempt
C2_Witness ==
    /\ op = "index_status"
    /\ outcome.kind = "returned"
    /\ outcome.value = "ready"
    /\ attempt[1] = 2
    /\ slept[1] = <<15, 30>>

\* C3: when a call's _request ends with its last iteration catching a transport
\* failure, all three attempts have failed and the call raises: ObjectiveError
\* with the response's text when the failure carries a response, the failure
\* itself when it carries none.
C3_ExhaustedRaises ==
    (op \in SingleOps /\ Over /\ reply.e # NoExc) =>
        /\ attempt[1] = MAX_RETRIES - 1
        /\ outcome.kind = "raised"
        /\ IF reply.e.text # None
           THEN outcome.value = Exc("ObjectiveError", reply.e.text)
           ELSE outcome.value = reply.e

\* three failures, the last one an HTTP error answer of the server
C3_Witness ==
    /\ op = "create_index"
    /\ outcome.kind = "raised"
    /\ reply.e = Exc("HTTPError", "server error")
    /\ outcome.value = Exc("ObjectiveError", "server error")
    /\ attempt[1] = 2

\* how many tasks' closures caught (c = TRUE) or did not catch an exception
CaughtCount(c) == Cardinality({i \in Tasks : (result[i].caught # "none") = c})

\* C4: a batch call given its items ends by returning, never by raising, with
\* every item processed; an item whose processing raised (the request failed
\* after its retries, or the answer lacked a field) is recorded as a failure:
\* one entry of failed in upsert, false in delete's conjunction, no document in
\* get_by_ids; the other items are recorded as successes.
C4_FaultIsolation ==
    (op \in BatchOps /\ ids.given /\ Over) =>
        /\ outcome.kind = "returned"
        /\ Len(wst) = (IF op = "upsert" THEN Len(items) ELSE Len(ids.list))
        /\ \A i \in Tasks : wst[i] = "done"
        /\ op = "upsert" =>
              /\ Len(outcome.value.failed) = CaughtCount(TRUE)
              /\ Len(outcome.value.succeeded) = CaughtCount(FALSE)
        /\ op = "delete" => (outcome.value <=> CaughtCount(TRUE) = 0)
        /\ op = "get_by_ids" => Len(outcome.value) = CaughtCount(FALSE)

\* a delete whose first item failed after its retries and whose later item
\* was deleted all the same
C4_Witness ==
    /\ op = "delete"
    /\ outcome.kind = "returned"
    /\ outcome.value = FALSE
    /\ \E i, j \in Tasks :
          i < j /\ result[i].caught = "_request" /\ result[j].caught = "none"

\* C5: the tasks of a call in flight are never more than CONNECTION_POOL_SIZE,
\* which is the size of the HTTP connection pool.
C5_BoundedInFlight ==
    /\ InFlight <= CONNECTION_POOL_SIZE
    /\ pool_maxsize = CONNECTION_POOL_SIZE

\* a batch longer than the pool, the pool full and a task waiting
C5_Witness ==
    /\ op \in BatchOps
    /\ Len(wst) > CONNECTION_POOL_SIZE
    /\ InFlight = CONNECTION_POOL_SIZE
    /\ \E i \in Tasks : wst[i] = "queued"

\* the returns of the closures of tasks 1..n, concatenated (get_by_ids)
RECURSIVE Gathered(_)
Gathered(n) == IF n = 0 THEN <<>> ELSE Gathered(n - 1) \o result[n].ret

\* C6: when a batch call has returned, no task of it is queued or running,
\* every result has been taken, and the value returned accounts for all items.
C6_ReturnsAfterAll ==
    (op \in BatchOps /\ outcome.kind = "returned") =>
        /\ \A i \in Tasks : wst[i] = "done"
        /\ collected = Len(wst)
        /\ op = "upsert" =>
              Len(outcome.value.succeeded) + Len(outcome.value.failed) = Len(items)
        /\ op = "delete" => (outcome.value <=> \A i \in Tasks : result[i].ret)
        /\ op = "get_by_ids" => outcome.value = Gathered(Len(wst))

\* an upsert of a full batch that has returned
C6_Witness ==
    /\ op = "upsert"
    /\ outcome.kind = "returned"
    /\ Len(items) = MaxItems
    /\ Len(outcome.value.succeeded) >= 1
    /\ Len(outcome.value.failed) >= 1

\* C7: delete without an id list raises a validation error, with no request
\* issued and no task started, in the adapter and in the in-memory indexer.
C7_DeleteWithoutIds ==
    (op \in {"delete", "mem_delete"} /\ ~ids.given) =>
        /\ outcome.kind = "raised"
        /\ outcome.value.type \in {"ValueError", "ObjectiveError"}
        /\ reqs = {}
        /\ Tasks = {}

\* the ids among the first n requested whose object the service holds and
\* whose request did not fail
RECURSIVE Retrievable(_)
Retrievable(n) ==
    IF n = 0 THEN <<>>
    ELSE Retrievable(n - 1) \o
         (IF ids.list[n] \in DOMAIN remote /\ result[n].caught # "_request"
          THEN <<ids.list[n]>> ELSE <<>>)

\* C8: get_by_ids returns the documents of exactly the requested ids that are
\* present on the service (and whose request did not fail), one per request.
C8_GetByIdsReturnsPresent ==
    (op = "get_by_ids" /\ outcome.kind = "returned") =>
        [k \in DOMAIN outcome.value |-> outcome.value[k].id]
            = Retrievable(Len(ids.list))

\* C9: search without index_id raises ObjectiveError and issues no request,
\* with or without filter_query.
C9_SearchNeedsIndexId ==
    (op = "search" /\ "index_id" \notin kwargs) =>
        /\ outcome.kind = "raised"
        /\ outcome.value = Exc("ObjectiveError", "index_id is required for search")
        /\ reqs = {}
        /\ Tasks = {}

\* a search given filter_query and no index_id
C9_Witness ==
    /\ op = "search"
    /\ kwargs = {"filter_query"}
    /\ outcome.kind = "raised"

\* C10: once _request has returned its JSON to create_index or index_status,
\* the call is over: it raises ObjectiveError when the JSON lacks id / status
\* and returns that field otherwise; the request is not issued again and no
\* sleep follows the answer (the sleeps made are those of the failed attempts
\* before it).  A call that raises this error has received an answer.
C10_MalformedNotRetried ==
    /\ (op \in {"create_index", "index_status"} /\ Over /\ reply.e = NoExc) =>
          LET field == IF op = "create_index" THEN "id" ELSE "status"
              msg == IF op = "create_index" THEN "Failed to create index"
                                            ELSE "Failed to retrieve index"
          IN  /\ Len(slept[1]) = attempt[1]
              /\ outcome.kind =
                    (IF field \in DOMAIN reply.json THEN "returned" ELSE "raised")
              /\ outcome.value =
                    (IF field \in DOMAIN reply.json THEN reply.json[field]
                                                   ELSE Exc("ObjectiveError", msg))
    /\ (/\ op \in {"create_index", "index_status"}
        /\ outcome.kind = "running") => reply.e = NoExc /\ reply.json = EmptyMap

\* create_index answered at once by JSON without id
C10_Witness ==
    /\ op = "create_index"
    /\ outcome.kind = "raised"
    /\ outcome.value = Exc("ObjectiveError", "Failed to create index")
    /\ reply.e = NoExc
    /\ attempt[1] = 0
    /\ slept[1] = <<>>

\* the document the caller passed as items[k] carries id_ after the call
Carries(k, id_) == Truthy(items[k].id) /\ items[k].id = id_

\* C11: after an upsert (remote or in-memory) has returned, every document
\* the caller passed in that is reported in succeeded has its own id field
\* populated and equal to the id reported for it, also when it was passed
\* without an id.
C11_IdWrittenBack ==
    /\ (op = "upsert" /\ outcome.kind = "returned") =>
          \A k \in DOMAIN items :
             result[k].ret.ok => Carries(k, result[k].ret.key)
    /\ (op = "mem_upsert" /\ outcome.kind = "returned") =>
          \A k \in DOMAIN items : Carries(k, outcome.value.succeeded[k])

\* C11, amended: the remote adapter writes the id onto the caller's document;
\* the in-memory indexer writes a generated id onto a copy, which it stores
\* under that id, and leaves the caller's id-less document without an id.  A
\* document stored in memory always carries the id it is stored under.
C11_IdWrittenBackOrCopied ==
    /\ (op = "upsert" /\ outcome.kind = "returned") =>
          \A k \in DOMAIN items :
             result[k].ret.ok =>
                /\ Carries(k, result[k].ret.key)
                /\ Count(outcome.value.succeeded, result[k].ret.key) >= 1
    /\ (op = "mem_upsert" /\ outcome.kind = "returned") =>
          \A k \in DOMAIN items :
             LET id_ == outcome.value.succeeded[k] IN
             /\ Truthy(id_)
             /\ id_ \in DOMAIN store
             /\ items[k].id # None => Carries(k, id_)
    /\ \A id_ \in DOMAIN store : Truthy(id_) /\ store[id_].id = id_

\* an in-memory upsert of a document without an id has returned
C11_Witness ==
    /\ op = "mem_upsert"
    /\ outcome.kind = "returned"
    /\ \E k \in DOMAIN items : items[k].id = None

\* the ids a response reports, however it partitions them
Reported(resp, id_) == Count(resp.succeeded, id_) + Count(resp.failed, id_)
ItemIds == {items[k].id : k \in DOMAIN items}

\* the second of two upserts of the same identified documents: what holds in
\* the state it has reached
RepeatedUpsert ==
    /\ (prev.repeats /\ op = "upsert") =>
          /\ reqs \subseteq {[method |-> "PUT",
                              endpoint |-> Endpoint("objects", id_, "")] :
                             id_ \in ItemIds}
          /\ outcome.kind = "returned" =>
                \A id_ \in ItemIds \cup {None} :
                   Reported(outcome.value, id_) = Reported(prev.value, id_)
    /\ (prev.repeats /\ op = "mem_upsert") =>
          /\ outcome = Returned(prev.value)
          /\ \A k \in DOMAIN items : items[k].id \in DOMAIN store

\* C12: upserting the same identified documents a second time reports the
\* same ids as the first time and adds no record.  The remote adapter issues
\* only PUT objects/{id} for them, and no step of the second call makes the
\* service assign an id or hold an object under another id; the in-memory
\* store after the second upsert equals the store after the first.
C12_UpsertIdempotent ==
    [][/\ RepeatedUpsert'
       /\ (prev'.repeats /\ op' = "upsert") =>
             /\ minted' = minted
             /\ DOMAIN remote' \subseteq DOMAIN remote \cup ItemIds'
       /\ (prev'.repeats /\ op' = "mem_upsert") => store' = store]_vars

\* a second remote upsert of the same two identified documents has returned
\* them as succeeded, as the first did
C12_Witness ==
    /\ prev.repeats
    /\ op = "upsert"
    /\ Len(items) = 2
    /\ outcome.kind = "returned"
    /\ outcome.value.succeeded = <<"a", "a">>
    /\ prev.value.succeeded = <<"a", "a">>

\* a step of InMemoryDocumentIndexer.upsert / delete / get
MemStep(name) == impl = "InMemory" /\ op' = name
SeqIds(q) == {q[k] : k \in DOMAIN q}

\* what an in-memory upsert step does apart from which document it leaves
\* under an id given more than once
MemUpsertTotal ==
    LET docs == items'
        resp == outcome'.value
    IN  /\ outcome'.kind = "returned"
        /\ resp.failed = <<>>
        /\ Len(resp.succeeded) = Len(docs)
        /\ \A k \in DOMAIN docs :
              IF docs[k].id # None
              THEN resp.succeeded[k] = docs[k].id
              ELSE /\ Truthy(resp.succeeded[k])
                   /\ resp.succeeded[k] \notin DOMAIN store
                   /\ \A j \in DOMAIN docs :
                         j # k => resp.succeeded[j] # resp.succeeded[k]
        /\ DOMAIN store' = DOMAIN store \cup SeqIds(resp.succeeded)
        /\ \A id_ \in DOMAIN store \ SeqIds(resp.succeeded) :
              store'[id_] = store[id_]

\* C13: InMemoryDocumentIndexer.upsert never fails; succeeded lists one id per
\* input document in input order; a document given without an id gets a
\* non-empty id that is neither in the store before the call nor given to
\* another document of the call; afterwards the store maps every id of
\* succeeded to the document it was reported for, and the entries under other
\* ids are as before.
C13_MemUpsertStoresEach ==
    [][MemStep("mem_upsert") =>
          /\ MemUpsertTotal
          /\ \A k \in DOMAIN items' :
                LET id_ == outcome'.value.succeeded[k] IN
                store'[id_] = [items'[k] EXCEPT !.id = id_]]_vars

\* the last document of the call reported under the id reported for items[k]
LastFor(docs, succeeded, k) ==
    LET j == CHOOSE j \in DOMAIN docs :
                 /\ succeeded[j] = succeeded[k]
                 /\ \A i \in DOMAIN docs : succeeded[i] = succeeded[k] => i <= j
    IN  docs[j]

\* C13, amended: as above, but when several documents of the call carry the
\* same id, the store maps that id to the last of them.
C13_MemUpsertStoresLast ==
    [][MemStep("mem_upsert") =>
          /\ MemUpsertTotal
          /\ \A k \in DOMAIN items' :
                LET id_ == outcome'.value.succeeded[k] IN
                store'[id_] =
                    [LastFor(items', outcome'.value.succeeded, k)
                        EXCEPT !.id = id_]]_vars

\* an in-memory upsert has stored a generated id and replaced, within one
\* call, the document given first under "a" by the one given after it
C13_Witness ==
    /\ op = "mem_upsert"
    /\ outcome.kind = "returned"
    /\ Len(items) = 3
    /\ items[1] = Document("a", "t", "m")
    /\ items[2] = Document(None, "t", "m")
    /\ items[3] = Document("a", "s", "m")
    /\ store["a"] = items[3]
    /\ outcome.value.succeeded[2] \in DOMAIN store

\* the ids of q that are in S, each at its first place in q only
RECURSIVE FirstOfEach(_, _)
FirstOfEach(q, S) ==
    IF q = <<>> THEN <<>>
    ELSE IF Head(q) \in S
         THEN <<Head(q)>> \o FirstOfEach(Tail(q), S \ {Head(q)})
         ELSE FirstOfEach(Tail(q), S)

\* C14: InMemoryDocumentIndexer.delete given an id list returns (never
\* raises); succeeded is the requested ids that were in the store, each once,
\* in request order; num_deleted is its length, failed is empty and
\* num_failed is 0; afterwards no requested id is in the store and every
\* other entry is as before.
C14_MemDelete ==
    [][(MemStep("mem_delete") /\ ids'.given) =>
          LET resp == outcome'.value IN
          /\ outcome'.kind = "returned"
          /\ resp.succeeded = FirstOfEach(ids'.list, DOMAIN store)
          /\ resp.num_deleted = Len(resp.succeeded)
          /\ resp.failed = <<>>
          /\ resp.num_failed = 0
          /\ DOMAIN store' = DOMAIN store \ SeqIds(ids'.list)
          /\ \A id_ \in DOMAIN store' : store'[id_] = store[id_]]_vars

\* a delete that named a stored id twice and an absent id has removed the one
\* and left another stored document alone
C14_Witness ==
    /\ op = "mem_delete"
    /\ ids = IdList(<<"a", Uuids[1], "a">>)
    /\ outcome.kind = "returned"
    /\ outcome.value.succeeded = <<"a">>
    /\ outcome.value.num_deleted = 1
    /\ DOMAIN store = {Uuids[2]}

Stored(id_) == id_ \in DOMAIN store

\* C15: InMemoryDocumentIndexer.get returns (never raises) the documents
\* stored under the requested ids that are present, in the order queried,
\* omitting the absent ids, and leaves the store unchanged.  The ids present
\* are those upserted and not deleted since: an upsert leaves every id it
\* reports in the store, a delete leaves none of the ids it was given, and no
\* step adds or removes any other id.
C15_MemGet ==
    [][/\ MemStep("mem_get") =>
             LET present == SelectSeq(ids'.list, Stored) IN
             /\ outcome'.kind = "returned"
             /\ outcome'.value = [k \in DOMAIN present |-> store[present[k]]]
             /\ store' = store
       /\ MemStep("mem_upsert") =>
             /\ \A id_ \in SeqIds(outcome'.value.succeeded) :
                   id_ \in DOMAIN store'
             /\ \A id_ \in DOMAIN store : id_ \in DOMAIN store'
             /\ DOMAIN store' \subseteq
                   DOMAIN store \cup SeqIds(outcome'.value.succeeded)
       /\ (MemStep("mem_delete") /\ ids'.given) =>
             /\ \A id_ \in SeqIds(ids'.list) : id_ \notin DOMAIN store'
             /\ DOMAIN store' \subseteq DOMAIN store
             /\ \A id_ \in DOMAIN store \ SeqIds(ids'.list) :
                   id_ \in DOMAIN store'
       /\ (MemStep("mem_delete") /\ ~ids'.given) => store' = store]_vars

\* a get that named a deleted id between two mentions of a stored one has
\* returned the stored document twice
C15_Witness ==
    /\ op = "mem_get"
    /\ ids.list = <<"a", Uuids[1], "a">>
    /\ outcome.kind = "returned"
    /\ DOMAIN store = {"a", Uuids[2]}
    /\ outcome.value = <<store["a"], store["a"]>>

\* C16: the payload upsert sends decodes, by _doc_from_response, to the
\* document it was sent for: once an upsert task has succeeded, the envelope
\* of the object the service holds under the reported id decodes to the
\* document's content and metadata; get_by_ids drops no object it was
\* answered with, and search does not fail decoding one.
C16_WireShapeInSync ==
    /\ op = "upsert" =>
          \A i \in Tasks :
             (wst[i] = "done" /\ result[i].ret.ok
                /\ result[i].ret.key \in DOMAIN remote) =>
                LET obj_response == Envelope(remote, result[i].ret.key) IN
                /\ Decodable(obj_response)
                /\ _doc_from_response(obj_response) = items[i]
    /\ op = "get_by_ids" =>
          \A i \in Tasks : wst[i] = "done" => result[i].caught # "KeyError"
    /\ (op = "search" /\ outcome.kind = "raised") =>
          outcome.value # Exc("KeyError", "text")

\* the keys returned by the closures of tasks 1..n whose flag is ok, in the
\* order of the tasks
RECURSIVE KeysOf(_, _)
KeysOf(n, ok) ==
    IF n = 0 THEN <<>>
    ELSE KeysOf(n - 1, ok) \o
         (IF result[n].ret.ok = ok THEN <<result[n].ret.key>> ELSE <<>>)

\* C17: the order within succeeded, and within failed, is the order in which
\* the per-document operations completed: the key of the document whose
\* operation completed first is the first entry of the list it is in.
C17_CompletionOrder ==
    (op = "upsert" /\ outcome.kind = "returned" /\ first_done # 0) =>
        LET res == result[first_done].ret IN
        IF res.ok THEN outcome.value.succeeded[1] = res.key
                  ELSE outcome.value.failed[1] = res.key

\* C17, amended: the order within succeeded, and within failed, is the order
\* in which the documents were submitted, whatever order their operations
\* completed in; while the call runs, the results taken so far are those of
\* the first `collected` documents.
C17_SubmissionOrder ==
    /\ (op = "upsert" /\ outcome.kind = "returned") =>
          /\ outcome.value.succeeded = KeysOf(Len(items), TRUE)
          /\ outcome.value.failed = KeysOf(Len(items), FALSE)
    /\ (op = "upsert" /\ outcome.kind = "running") =>
          /\ success = KeysOf(collected, TRUE)
          /\ failures = KeysOf(collected, FALSE)

\* the second document's operation completed before the first's, both
\* succeeded, and the first document's id still comes first
C17_Witness ==
    /\ op = "upsert"
    /\ outcome.kind = "returned"
    /\ first_done = 2
    /\ result[1].ret.ok
    /\ result[2].ret.ok
    /\ result[1].ret.key # result[2].ret.key
    /\ outcome.value.succeeded[1] = result[1].ret.key

\* C18: Objective.delete given an id list runs one task per id, each of which
\* issues DELETE objects/{id} for its id whether or not an earlier one failed;
\* a task's outcome is true when its request succeeded and false when it
\* failed; the call returns true exactly when every task's outcome is true
\* (true for the empty list).
C18_DeleteAndReduced ==
    (op = "delete" /\ ids.given) =>
        /\ Len(wst) = Len(ids.list)
        /\ \A i \in Tasks :
              wst[i] = "done" =>
                 /\ [method |-> "DELETE",
                     endpoint |-> Endpoint("objects", ids.list[i], "")] \in reqs
                 /\ result[i].ret <=> result[i].caught = "none"
        /\ outcome.kind \in {"running", "returned"}
        /\ outcome.kind = "running" =>
              (success <=> \A i \in 1..collected : result[i].ret)
        /\ outcome.kind = "returned" =>
              /\ \A i \in Tasks : wst[i] = "done"
              /\ outcome.value \in BOOLEAN
              /\ outcome.value <=> \A i \in Tasks : result[i].ret
              /\ reqs = {[method |-> "DELETE",
                          endpoint |-> Endpoint("objects", ids.list[i], "")] :
                         i \in Tasks}

\* a delete whose first id failed and whose later ids were deleted all the
\* same has returned false
C18_Witness ==
    /\ op = "delete"
    /\ ids = IdList(<<"b", "a", "a">>)
    /\ outcome = Returned(FALSE)
    /\ ~result[1].ret
    /\ result[2].ret
    /\ "a" \notin DOMAIN remote

\* task i of the batch call under way takes the step
Acts(i) == wst'[i] # wst[i] \/ attempt'[i] # attempt[i]

\* C19: the requests made for a document given without an id create at most
\* one object on the service, also when a POST is sent again after an attempt
\* that the service had handled; when the task succeeds, the id written onto
\* the document is the id of that one object.
C19_AtMostOneObject ==
    [][(op = "upsert" /\ outcome.kind = "running") =>
          \A i \in Tasks :
             (wst[i] = "running" /\ items[i].id = None /\ Acts(i)) =>
                LET all == made[i] \cup (DOMAIN remote' \ DOMAIN remote) IN
                /\ Cardinality(all) <= 1
                /\ (wst'[i] = "done" /\ result'[i].ret.ok) =>
                      all = {items'[i].id}]_vars

====
